---- MODULE Spec2Model ----
(***************************************************************************)
(* Model of keytest.cpp: a 4x4 key matrix scanned column by column, with   *)
(* one debounce state machine per key (keystates, lockout).                *)
(*                                                                         *)
(* Program state: keystates, lockout, the column output pins and the       *)
(* position of loop() (pc, col, row).  LOCKOUT_SCANS is the compile-time   *)
(* lockout length (400 in the source); here it is fixed at start-up to any *)
(* value of 1 .. MaxLockout and never changes.                             *)
(* A step of the model is one statement of loop() at column level          *)
(* (entering loop(), driving a column low or high) or one whole pass of    *)
(* the row loop body, lines 245-252, keytest_do_row_col included.          *)
(* History (not in the program):                                           *)
(*   sink     the events passed to keytest_emit during the current scan    *)
(*   visited  the cells updated during the current scan, in order          *)
(*   last     per cell, the last event emitted for it                      *)
(*   age      per cell, the number of its updates since its last event,    *)
(*            counted up to LOCKOUT_SCANS + 1                              *)
(*   reading  the value of !v of the latest row read                       *)
(*   script   readings still to be replayed on key (0,0); trace: what each *)
(*            replayed reading emitted (1 press, 0 release, 2 nothing)     *)
(*   other, shadow  a second run of the same program in lock step, which   *)
(*            reads the same values except on the key `other`; shadow.peer *)
(*            is the one further key pressed in such a pair of runs, and   *)
(*            shadow.reading the value of !v the second run read last      *)
(***************************************************************************)
EXTENDS Naturals, Sequences, FiniteSets

VARIABLES LOCKOUT_SCANS, keystates, lockout, pins, pc, col, row,
          sink, visited, last, age, reading, script, trace, other, shadow

vars == <<LOCKOUT_SCANS, keystates, lockout, pins, pc, col, row,
          sink, visited, last, age, reading, script, trace, other, shadow>>

\* ------------------------------------------------------------- bounds
\* Largest lockout length explored (the source uses 400).
MaxLockout == 3
\* Number of keys of the matrix the environment ever presses.
MaxKeys == 3

\* ---------------------------------------------------------- constants
NUM_COLUMNS == 4
NUM_ROWS == 4

KEYSTATE_WAIT_PRESS == 0
KEYSTATE_PRESS_LOCKOUT == 1
KEYSTATE_WAIT_RELEASE == 2
KEYSTATE_RELEASE_LOCKOUT == 3

\* uint16_t
Width16 == 65536

Rows == 0 .. (NUM_ROWS - 1)
Cols == 0 .. (NUM_COLUMNS - 1)

\* Arduino pins of the column outputs and the row inputs, index 0 first.
columns == [i \in Cols |-> 6 + i]
rows == [i \in Rows |-> 2 + i]

keysyms ==
  [r \in Rows |->
    [c \in Cols |->
      (<< <<"1", "2", "3", "A">>,
          <<"4", "5", "6", "B">>,
          <<"7", "8", "9", "C">>,
          <<"*", "0", "#", "D">> >>)[r + 1][c + 1]]]

\* ------------------------------------------------------- environment
\* The keys the environment presses, in the order they are added as MaxKeys
\* grows: (0,0) and (1,1) are the keys of Scenario B, (0,0) and (1,0) share a
\* column, (1,1) and (1,0) share a row, (1,0) and (0,1) are transposed.
PressOrder == << <<0, 0>>, <<1, 1>>, <<1, 0>>, <<0, 1>>, <<2, 3>>, <<3, 2>> >>

Pressable == { PressOrder[i] : i \in 1 .. MaxKeys }

\* The keys pressed in this run: all of Pressable, or, in the runs that follow
\* one key (shadow.two), the key `other` and one more key.
Pressed == IF shadow.two THEN {other, shadow.peer} ELSE Pressable

\* digitalRead(rows[r]) while column c is driven low: 0 = key down (active
\* low).  A key outside Pressed is never down; a pressed key may read
\* anything on any scan (contact bounce).  While a script is being replayed
\* the key (0,0) reads what the script says.
digitalRead(r, c) ==
  IF <<r, c>> \notin Pressed THEN {1}
  ELSE IF r = 0 /\ c = 0 /\ script # <<>>
       THEN {IF Head(script) THEN 0 ELSE 1}
       ELSE {0, 1}

\* ----------------------------------------------------------- helpers
\* m[r][c] = x
Set_swapped(m, r, c, x) == [m EXCEPT ![c][r] = x]

Set(m, r, c, x) == [m EXCEPT ![r][c] = x]

\* C's !v on a uint8_t
Not(v) == IF v = 0 THEN 1 ELSE 0

\* ---------------------------------------------------- keytest_emit
\* The test of `pressed` is inverted: a press is sent as a release.
keytest_emit_inverted(snk, keysym, pressed) ==
  Append(snk, [keysym |-> keysym, pressed |-> Not(pressed)])

\* Keyboard.press (keysym) or Keyboard.release (keysym): the sink receives
\* the symbol and whether it is pressed.
keytest_emit(snk, keysym, pressed) ==
  Append(snk, [keysym |-> keysym, pressed |-> pressed])

\* ---------------------------------------------- keytest_do_row_col
\* The variant left commented out at line 202: a press goes straight to
\* KEYSTATE_WAIT_RELEASE.
keytest_do_row_col_direct(ks, lo, snk, r, c, pressed, timeout) ==
  LET oldstate == ks[r][c]
      same == [lockout |-> lo, sink |-> snk, newstate |-> oldstate]
      res ==
        IF oldstate = KEYSTATE_WAIT_PRESS THEN
          IF pressed # 0
          THEN [lockout |-> Set(lo, r, c, LOCKOUT_SCANS),
                sink |-> keytest_emit(snk, keysyms[r][c], 1),
                newstate |-> KEYSTATE_WAIT_RELEASE]
          ELSE same
        ELSE IF oldstate = KEYSTATE_PRESS_LOCKOUT THEN
          IF timeout # 0
          THEN [same EXCEPT !.newstate = KEYSTATE_WAIT_RELEASE]
          ELSE same
        ELSE IF oldstate = KEYSTATE_WAIT_RELEASE /\ pressed = 0 THEN
          [lockout |-> Set(lo, r, c, LOCKOUT_SCANS),
           sink |-> keytest_emit(snk, keysyms[r][c], 0),
           newstate |-> KEYSTATE_RELEASE_LOCKOUT]
        ELSE IF oldstate \in {KEYSTATE_WAIT_RELEASE, KEYSTATE_RELEASE_LOCKOUT} THEN
          IF timeout # 0
          THEN [same EXCEPT !.newstate = KEYSTATE_WAIT_PRESS]
          ELSE same
        ELSE same
  IN [lockout |-> res.lockout, sink |-> res.sink,
      keystates |-> Set(ks, r, c, res.newstate)]

\* The break that ends the KEYSTATE_PRESS_LOCKOUT case (line 209) is missing:
\* that case runs on into the KEYSTATE_WAIT_RELEASE case.
keytest_do_row_col_nobreak(ks, lo, snk, r, c, pressed, timeout) ==
  LET oldstate == ks[r][c]
      same == [lockout |-> lo, sink |-> snk, newstate |-> oldstate]
      res ==
        IF oldstate = KEYSTATE_WAIT_PRESS THEN
          IF pressed # 0
          THEN [lockout |-> Set(lo, r, c, LOCKOUT_SCANS),
                sink |-> keytest_emit(snk, keysyms[r][c], 1),
                newstate |-> KEYSTATE_PRESS_LOCKOUT]
          ELSE same
        ELSE IF oldstate \in {KEYSTATE_PRESS_LOCKOUT, KEYSTATE_WAIT_RELEASE}
                /\ pressed = 0 THEN
          [lockout |-> Set(lo, r, c, LOCKOUT_SCANS),
           sink |-> keytest_emit(snk, keysyms[r][c], 0),
           newstate |-> KEYSTATE_RELEASE_LOCKOUT]
        ELSE IF timeout # 0
          THEN [same EXCEPT !.newstate = KEYSTATE_WAIT_PRESS]
          ELSE same
  IN [lockout |-> res.lockout, sink |-> res.sink,
      keystates |-> Set(ks, r, c, res.newstate)]

\* keytest_do_row_col on the grids ks (keystates) and lo (lockout) and the
\* sink snk: their values after the call.
keytest_do_row_col(ks, lo, snk, r, c, pressed, timeout) ==
  LET oldstate == ks[r][c]
      same == [lockout |-> lo, sink |-> snk, newstate |-> oldstate]
      res ==
        IF oldstate = KEYSTATE_WAIT_PRESS THEN
          IF pressed # 0
          THEN [lockout |-> Set(lo, r, c, LOCKOUT_SCANS),
                sink |-> keytest_emit(snk, keysyms[r][c], 1),
                newstate |-> KEYSTATE_PRESS_LOCKOUT]
          ELSE same
        ELSE IF oldstate = KEYSTATE_PRESS_LOCKOUT THEN
          IF timeout # 0
          THEN [same EXCEPT !.newstate = KEYSTATE_WAIT_RELEASE]
          ELSE same
        ELSE IF oldstate = KEYSTATE_WAIT_RELEASE /\ pressed = 0 THEN
          [lockout |-> Set(lo, r, c, LOCKOUT_SCANS),
           sink |-> keytest_emit(snk, keysyms[r][c], 0),
           newstate |-> KEYSTATE_RELEASE_LOCKOUT]
        ELSE IF oldstate \in {KEYSTATE_WAIT_RELEASE, KEYSTATE_RELEASE_LOCKOUT} THEN
          \* KEYSTATE_RELEASE_LOCKOUT, and the fall-through from
          \* KEYSTATE_WAIT_RELEASE when the key is still down
          IF timeout # 0
          THEN [same EXCEPT !.newstate = KEYSTATE_WAIT_PRESS]
          ELSE same
        ELSE same
  IN [lockout |-> res.lockout, sink |-> res.sink,
      keystates |-> Set(ks, r, c, res.newstate)]

\* ------------------------------------------------------------ setup
Grid0(x) == [r \in Rows |-> [c \in Cols |-> x]]

Setup ==
  /\ keystates = Grid0(KEYSTATE_WAIT_PRESS)
  /\ lockout = Grid0(0)
  /\ pins = [p \in {columns[i] : i \in Cols} |-> 1]
  /\ pc = "idle"
  /\ col = 0
  /\ row = 0
  /\ sink = <<>>
  /\ visited = <<>>
  /\ last = Grid0("none")
  /\ age = Grid0(0)
  /\ reading = 0
  /\ trace = <<>>

NoShadow ==
  [on |-> FALSE, two |-> FALSE, lockonly |-> FALSE, peer |-> <<0, 0>>,
   reading |-> 0,
   keystates |-> Grid0(KEYSTATE_WAIT_PRESS),
   lockout |-> Grid0(0), sink |-> <<>>]

\* Scenario A of the specification: the readings of key (0,0).
ScenarioA == <<TRUE, FALSE, TRUE, FALSE, FALSE, FALSE, FALSE>>

Init ==
  /\ LOCKOUT_SCANS \in 1 .. MaxLockout
  /\ Setup
  /\ script \in {<<>>} \cup (IF LOCKOUT_SCANS = 3 THEN {ScenarioA} ELSE {})
  /\ other = <<0, 0>>
  /\ shadow = NoShadow

\* ------------------------------------------------------------- loop
\* loop() is entered: col = 0.  The history of the previous scan is dropped.
LoopCall ==
  /\ pc = "idle"
  /\ pc' = "low"
  /\ col' = 0
  /\ sink' = <<>>
  /\ visited' = <<>>
  /\ shadow' = [shadow EXCEPT !.sink = <<>>]
  /\ UNCHANGED <<LOCKOUT_SCANS, keystates, lockout, pins, row, last, age,
                 reading, script, trace, other>>

\* digitalWrite (columns[col], 0); row = 0
ColumnLow ==
  /\ pc = "low"
  /\ pins' = [pins EXCEPT ![columns[col]] = 0]
  /\ row' = 0
  /\ pc' = "row"
  /\ UNCHANGED <<LOCKOUT_SCANS, keystates, lockout, col, sink, visited, last,
                 age, reading, script, trace, other, shadow>>

\* l == 1
TimedOut_two(l) == IF l = 2 THEN 1 ELSE 0

TimedOut_zero(l) == IF l = 0 THEN 1 ELSE 0

TimedOut(l) == IF l = 1 THEN 1 ELSE 0

\* The decrement tests and writes the stored counter, not the copy l.
RowBody_fresh(ks, lo, snk, r, c, v) ==
  LET l == lo[r][c]
      d == keytest_do_row_col(ks, lo, snk, r, c, Not(v), TimedOut(l))
      f == d.lockout[r][c]
  IN [keystates |-> d.keystates,
      sink |-> d.sink,
      lockout |-> IF f > 0
                  THEN Set(d.lockout, r, c, (f + Width16 - 1) % Width16)
                  ELSE d.lockout]

\* The copy l is written back even when it is 0.
RowBody_stale(ks, lo, snk, r, c, v) ==
  LET l == lo[r][c]
      d == keytest_do_row_col(ks, lo, snk, r, c, Not(v), TimedOut(l))
  IN [keystates |-> d.keystates,
      sink |-> d.sink,
      lockout |-> Set(d.lockout, r, c,
                      IF l > 0 THEN (l + Width16 - 1) % Width16 ELSE l)]

\* The test l > 0 is missing: the counter is always decremented.
RowBody_nocheck(ks, lo, snk, r, c, v) ==
  LET l == lo[r][c]
      d == keytest_do_row_col(ks, lo, snk, r, c, Not(v), TimedOut(l))
  IN [keystates |-> d.keystates,
      sink |-> d.sink,
      lockout |-> Set(d.lockout, r, c, (l + Width16 - 1) % Width16)]

\* The body of the row loop for cell (r, c) when digitalRead returns v: the
\* new keystates, lockout and sink.
RowBody(ks, lo, snk, r, c, v) ==
  LET l == lo[r][c]
      d == keytest_do_row_col(ks, lo, snk, r, c, Not(v), TimedOut(l))
  IN [keystates |-> d.keystates,
      sink |-> d.sink,
      lockout |-> IF l > 0
                  THEN Set(d.lockout, r, c, (l + Width16 - 1) % Width16)
                  ELSE d.lockout]

\* The second run reads what the first reads, except on the key `other`: there
\* it reads anything, at any time or (shadow.lockonly) only while the key is
\* in a lockout state.
ShadowRead(r, c, v) ==
  IF /\ shadow.on
     /\ <<r, c>> = other
     /\ shadow.lockonly =>
          keystates[r][c] \in {KEYSTATE_PRESS_LOCKOUT, KEYSTATE_RELEASE_LOCKOUT}
  THEN {0, 1}
  ELSE {v}

\* One pass of the row loop body, on row index r of column col.
RowStep(r) ==
  /\ pc = "row"
  /\ \E v \in digitalRead(r, col) :
       LET b == RowBody(keystates, lockout, sink, r, col, v)
           emitted == Len(b.sink) > Len(sink)
           ev == b.sink[Len(b.sink)]
       IN /\ keystates' = b.keystates
          /\ lockout' = b.lockout
          /\ sink' = b.sink
          /\ reading' = Not(v)
          /\ last' = IF emitted
                     THEN Set(last, r, col,
                              IF ev.pressed = 1 THEN "press" ELSE "release")
                     ELSE last
          /\ age' = Set(age, r, col,
                        IF emitted THEN 0
                        ELSE IF age[r][col] > LOCKOUT_SCANS
                             THEN age[r][col]
                             ELSE age[r][col] + 1)
          /\ IF r = 0 /\ col = 0 /\ script # <<>>
             THEN /\ script' = Tail(script)
                  /\ trace' = Append(trace,
                                IF emitted THEN ev.pressed ELSE 2)
             ELSE UNCHANGED <<script, trace>>
          /\ \E w \in ShadowRead(r, col, v) :
               shadow' =
                 IF shadow.on
                 THEN LET b2 == RowBody(shadow.keystates, shadow.lockout,
                                        shadow.sink, r, col, w)
                      IN [shadow EXCEPT !.keystates = b2.keystates,
                                        !.lockout = b2.lockout,
                                        !.sink = b2.sink,
                                        !.reading =
                                          IF shadow.lockonly THEN Not(w) ELSE @]
                 ELSE shadow
  /\ visited' = Append(visited, <<r, col>>)
  /\ IF row + 1 < NUM_ROWS
     THEN /\ row' = row + 1
          /\ pc' = "row"
     ELSE /\ row' = row
          /\ pc' = "high"
  /\ UNCHANGED <<LOCKOUT_SCANS, pins, col, other>>

\* The row loop counts down instead of up.
DoCell_desc == RowStep(NUM_ROWS - 1 - row)

DoCell == RowStep(row)

\* The column is left driven low.
ColumnHigh_keep ==
  /\ pc = "high"
  /\ pins' = pins
  /\ IF col + 1 < NUM_COLUMNS
     THEN /\ col' = col + 1
          /\ pc' = "low"
     ELSE /\ col' = col
          /\ pc' = "idle"
  /\ UNCHANGED <<LOCKOUT_SCANS, keystates, lockout, row, sink, visited, last,
                 age, reading, script, trace, other, shadow>>

\* The column loop stops one column early.
ColumnHigh_short ==
  /\ pc = "high"
  /\ pins' = [pins EXCEPT ![columns[col]] = 1]
  /\ IF col + 2 < NUM_COLUMNS
     THEN /\ col' = col + 1
          /\ pc' = "low"
     ELSE /\ col' = col
          /\ pc' = "idle"
  /\ UNCHANGED <<LOCKOUT_SCANS, keystates, lockout, row, sink, visited, last,
                 age, reading, script, trace, other, shadow>>

\* digitalWrite (columns[col], 1); col++; loop() returns after the last column
ColumnHigh ==
  /\ pc = "high"
  /\ pins' = [pins EXCEPT ![columns[col]] = 1]
  /\ IF col + 1 < NUM_COLUMNS
     THEN /\ col' = col + 1
          /\ pc' = "low"
     ELSE /\ col' = col
          /\ pc' = "idle"
  /\ UNCHANGED <<LOCKOUT_SCANS, keystates, lockout, row, sink, visited, last,
                 age, reading, script, trace, other, shadow>>

Next == LoopCall \/ ColumnLow \/ DoCell \/ ColumnHigh

Spec == Init /\ [][Next]_vars

\* Two runs in lock step on two pressed keys: the second run reads the same
\* values as the first except on the key `other`, where it reads anything.
InitPair ==
  /\ LOCKOUT_SCANS \in 1 .. MaxLockout
  /\ Setup
  /\ script = <<>>
  /\ other \in Pressable
  /\ \E p \in Pressable \ {other} :
       shadow = [NoShadow EXCEPT !.on = TRUE, !.two = TRUE, !.peer = p]

SpecPair == InitPair /\ [][Next]_vars

\* As SpecPair, but the second run's readings of `other` differ from the
\* first's only while that key is in a lockout state.
InitLock ==
  /\ LOCKOUT_SCANS \in 1 .. MaxLockout
  /\ Setup
  /\ script = <<>>
  /\ other \in Pressable
  /\ \E p \in Pressable \ {other} :
       shadow = [NoShadow EXCEPT !.on = TRUE, !.two = TRUE,
                                 !.lockonly = TRUE, !.peer = p]

SpecLock == InitLock /\ [][Next]_vars

\* One run on two pressed keys in which loop() is called again and again, as
\* the Arduino runtime does, and every statement of it terminates.
InitLive ==
  /\ LOCKOUT_SCANS \in 1 .. MaxLockout
  /\ Setup
  /\ script = <<>>
  /\ other \in Pressable
  /\ \E p \in Pressable \ {other} :
       shadow = [NoShadow EXCEPT !.two = TRUE, !.peer = p]

SpecLive == InitLive /\ [][Next]_vars /\ WF_vars(Next)

\* =========================================================== claims
Cells == Rows \X Cols

LockoutStates == {KEYSTATE_PRESS_LOCKOUT, KEYSTATE_RELEASE_LOCKOUT}

\* This step passes one more event to the sink.
Emitted == Len(sink') = Len(sink) + 1

\* This step emits the event (keysyms[r][c], p).
EmitsFor(r, c, p) ==
  /\ Emitted
  /\ sink'[Len(sink')] = [keysym |-> keysyms[r][c], pressed |-> p]

EmitsAny(r, c) == EmitsFor(r, c, 1) \/ EmitsFor(r, c, 0)

\* This step moves cell (r, c) out of a lockout state.
Leaves(r, c) ==
  /\ keystates[r][c] \in LockoutStates
  /\ keystates'[r][c] # keystates[r][c]

\* The cell whose symbol is keysym.
CellOf(keysym) == CHOOSE rc \in Cells : keysyms[rc[1]][rc[2]] = keysym

\* The last cell updated is (r, c).
JustUpdated(r, c) == visited # <<>> /\ visited[Len(visited)] = <<r, c>>

\* C1 (P1, alternation): for every cell, a press is emitted only when the
\* cell's previous event was a release or it has emitted nothing yet, and a
\* release only when its previous event was a press; so the events of a cell
\* alternate and start with a press.
C1_Alternation ==
  [][\A r \in Rows, c \in Cols :
       /\ EmitsFor(r, c, 1) => last[r][c] \in {"none", "release"}
       /\ EmitsFor(r, c, 0) => last[r][c] = "press"]_vars

\* Key (0,0) has emitted a press and then a release, and is locked out after
\* the release.
C1_Witness ==
  /\ last[0][0] = "release"
  /\ keystates[0][0] = KEYSTATE_RELEASE_LOCKOUT

\* C2 (P2, debounce suppression): a cell in WaitingForPress that reads
\* pressed emits a press in that update, and whatever it reads afterwards no
\* event of a cell comes fewer than LOCKOUT_SCANS scans after the cell's
\* previous event.
C2_DebounceSuppression ==
  [][/\ (pc = "row" /\ keystates[row][col] = KEYSTATE_WAIT_PRESS
           /\ reading' = 1) => EmitsFor(row, col, 1)
     /\ \A r \in Rows, c \in Cols :
          EmitsAny(r, c) =>
            last[r][c] = "none" \/ age[r][c] + 1 >= LOCKOUT_SCANS]_vars

\* Key (0,0) emitted a press LOCKOUT_SCANS - 1 scans ago, has just read
\* "released" (a bounce) and is still locked out.
C2_Witness ==
  /\ LOCKOUT_SCANS >= 2
  /\ keystates[0][0] = KEYSTATE_PRESS_LOCKOUT
  /\ age[0][0] = LOCKOUT_SCANS - 1
  /\ JustUpdated(0, 0)
  /\ reading = 0

\* The events of cell (r, c) in the sink snk.
EventsOf(snk, r, c) == SelectSeq(snk, LAMBDA e : e.keysym = keysyms[r][c])

\* C3 (P3, independence): the update of a cell leaves the state and the
\* lockout of every other cell as they were; and in two runs that read the
\* same values on every key but `other`, every cell except `other` has the
\* same state, the same lockout and the same emitted events after every step.
C3_Independence ==
  [][/\ pc = "row" =>
          \A r \in Rows, c \in Cols :
            <<r, c>> # <<row, col>> =>
              /\ keystates'[r][c] = keystates[r][c]
              /\ lockout'[r][c] = lockout[r][c]
              /\ ~EmitsAny(r, c)
     /\ \A r \in Rows, c \in Cols :
          <<r, c>> # other =>
            /\ keystates'[r][c] = shadow'.keystates[r][c]
            /\ lockout'[r][c] = shadow'.lockout[r][c]
            /\ EventsOf(sink', r, c) = EventsOf(shadow'.sink, r, c)]_vars

\* The two runs disagree on the key `other` (one has it locked out after a
\* press, the other still waits for a press) while another key is locked out.
C3_Witness ==
  /\ shadow.on
  /\ keystates[other[1]][other[2]] = KEYSTATE_PRESS_LOCKOUT
  /\ shadow.keystates[other[1]][other[2]] = KEYSTATE_WAIT_PRESS
  /\ \E rc \in Cells :
       /\ rc # other
       /\ keystates[rc[1]][rc[2]] = KEYSTATE_RELEASE_LOCKOUT
       /\ lockout[rc[1]][rc[2]] # lockout[other[1]][other[2]]

\* C4 (data-model invariant): a cell's lockout counter is nonzero only while
\* the cell is in PressLockout or ReleaseLockout.
C4_LockoutOnlyInLockoutState ==
  \A r \in Rows, c \in Cols :
    lockout[r][c] # 0 => keystates[r][c] \in LockoutStates

\* A key has been through a whole press lockout and waits for its release
\* with its counter back at 0, while another key is still counting.
C4_Witness ==
  \E rc \in Cells, qc \in Cells :
    /\ keystates[rc[1]][rc[2]] = KEYSTATE_WAIT_RELEASE
    /\ lockout[rc[1]][rc[2]] = 0
    /\ age[rc[1]][rc[2]] = LOCKOUT_SCANS
    /\ lockout[qc[1]][qc[2]] > 0

\* C5 (P4, first half): a cell's lockout counter increases only in the step
\* that emits an event for that cell, and then to exactly LOCKOUT_SCANS; while
\* the cell stays in a lockout state the counter never increases.
C5_MonotoneCountdown ==
  [][\A r \in Rows, c \in Cols :
       /\ lockout'[r][c] > lockout[r][c] =>
            EmitsAny(r, c) /\ lockout'[r][c] = LOCKOUT_SCANS
       /\ (keystates[r][c] \in LockoutStates
             /\ keystates'[r][c] = keystates[r][c]) =>
            lockout'[r][c] <= lockout[r][c]]_vars

\* A locked-out key has counted down part of the way, after being armed to
\* LOCKOUT_SCANS for the second time (its release).
C5_Witness ==
  \E rc \in Cells :
    /\ keystates[rc[1]][rc[2]] = KEYSTATE_RELEASE_LOCKOUT
    /\ lockout[rc[1]][rc[2]] > 0
    /\ lockout[rc[1]][rc[2]] < LOCKOUT_SCANS

\* C6 as claimed (P4, second half): when a cell's state is changed out of a
\* lockout state, its stored lockout counter is already 0.
C6_ZeroBeforeTransition ==
  [][\A r \in Rows, c \in Cols : Leaves(r, c) => lockout[r][c] = 0]_vars

\* C6 as amended: a cell's state is changed out of a lockout state only in
\* the update that finds the stored counter at exactly 1, and that update ends
\* with the counter at 0.
C6_OneAtTransition ==
  [][\A r \in Rows, c \in Cols :
       Leaves(r, c) => lockout[r][c] = 1 /\ lockout'[r][c] = 0]_vars

\* A key has just left ReleaseLockout for WaitingForPress.
C6_Witness ==
  \E rc \in Cells :
    /\ JustUpdated(rc[1], rc[2])
    /\ keystates[rc[1]][rc[2]] = KEYSTATE_WAIT_PRESS
    /\ last[rc[1]][rc[2]] = "release"
    /\ age[rc[1]][rc[2]] = LOCKOUT_SCANS

\* What replaying Scenario A emits with LOCKOUT_SCANS = 3: a press at index 0,
\* a release at index 4, nothing else.
ScenarioATrace == <<1, 2, 2, 2, 0, 2, 2>>

\* C7 (exact lockout length): a cell that emitted at scan k leaves the lockout
\* state in its LOCKOUT_SCANS-th update after that (scan k + LOCKOUT_SCANS,
\* the update that finds its counter at 1), no sooner and no later;
\* its updates at scans k+1 .. k+LOCKOUT_SCANS emit nothing whatever they
\* read, and those before k+LOCKOUT_SCANS leave its state alone; from scan
\* k+LOCKOUT_SCANS+1 on it emits the opposite event exactly when it reads the
\* opposite value.  Replaying Scenario A with LOCKOUT_SCANS = 3 emits a press
\* at index 0 and a release at index 4 only.
C7_ExactLockoutLength ==
  [][/\ \A r \in Rows, c \in Cols :
          Leaves(r, c) => age'[r][c] = LOCKOUT_SCANS /\ lockout[r][c] = 1
     /\ (pc = "row" /\ keystates[row][col] \in LockoutStates
           /\ age[row][col] + 1 = LOCKOUT_SCANS) => Leaves(row, col)
     /\ (pc = "row" /\ last[row][col] # "none"
           /\ age[row][col] < LOCKOUT_SCANS) =>
          /\ ~Emitted
          /\ age[row][col] + 1 < LOCKOUT_SCANS =>
               keystates'[row][col] = keystates[row][col]
     /\ (pc = "row" /\ last[row][col] # "none"
           /\ age[row][col] >= LOCKOUT_SCANS) =>
          /\ (last[row][col] = "press" /\ reading' = 0) <=> EmitsFor(row, col, 0)
          /\ (last[row][col] = "release" /\ reading' = 1) <=> EmitsFor(row, col, 1)
     /\ (script' = <<>> /\ trace' # <<>>) => trace' = ScenarioATrace]_vars

\* Scenario A has been replayed to its end.
C7_Witness ==
  /\ LOCKOUT_SCANS = 3
  /\ script = <<>>
  /\ trace = ScenarioATrace

\* C8 (Scenario C, inert fall-through): a cell in WaitingForRelease that reads
\* pressed stays in WaitingForRelease, emits nothing and keeps its counter; no
\* cell in WaitingForRelease ever has its counter at 1 (the timeout input), and
\* no step moves a cell from WaitingForRelease to WaitingForPress.
C8_InertFallThrough ==
  [][/\ (pc = "row" /\ keystates[row][col] = KEYSTATE_WAIT_RELEASE
           /\ reading' = 1) =>
          /\ keystates'[row][col] = KEYSTATE_WAIT_RELEASE
          /\ lockout'[row][col] = lockout[row][col]
          /\ ~Emitted
     /\ \A r \in Rows, c \in Cols :
          /\ keystates'[r][c] = KEYSTATE_WAIT_RELEASE => lockout'[r][c] # 1
          /\ ~(keystates[r][c] = KEYSTATE_WAIT_RELEASE
                 /\ keystates'[r][c] = KEYSTATE_WAIT_PRESS)]_vars

\* Key (0,0) is held down: it was already waiting for its release and has
\* just read "pressed" again, through the fall-through.
C8_Witness ==
  /\ JustUpdated(0, 0)
  /\ keystates[0][0] = KEYSTATE_WAIT_RELEASE
  /\ age[0][0] = LOCKOUT_SCANS + 1
  /\ reading = 1

\* Cell a is scanned before cell b: lower column, or same column and lower row.
ScannedBefore(a, b) == a[2] < b[2] \/ (a[2] = b[2] /\ a[1] < b[1])

\* C9 (Scenario B, cross-cell ordering): a cell waiting for a press that reads
\* pressed, or waiting for a release that reads released, emits in that very
\* update whatever the other cells' states and counters; and the events of one
\* scan reach the sink by ascending column and, within a column, ascending row.
C9_ScanOrder ==
  [][/\ (pc = "row" /\ keystates[row][col] = KEYSTATE_WAIT_PRESS
           /\ reading' = 1) => EmitsFor(row, col, 1)
     /\ (pc = "row" /\ keystates[row][col] = KEYSTATE_WAIT_RELEASE
           /\ reading' = 0) => EmitsFor(row, col, 0)
     /\ \A i \in 1 .. Len(sink'), j \in 1 .. Len(sink') :
          i < j => ScannedBefore(CellOf(sink'[i].keysym),
                                 CellOf(sink'[j].keysym))]_vars

\* Scenario B: keys (0,0) and (1,1) were pressed in the same scan and both
\* presses reached the sink in that scan, (0,0) first, while key (1,0), which
\* lies between them in scan order, was locked out.
C9_Witness ==
  /\ pc = "idle"
  /\ sink = << [keysym |-> "1", pressed |-> 1],
               [keysym |-> "5", pressed |-> 1] >>
  /\ keystates[1][0] \in LockoutStates

\* C10: during one invocation of loop() no cell is updated twice and no cell
\* emits twice; when loop() returns every cell has been updated exactly once.
C10_OncePerScan ==
  /\ \A i \in 1 .. Len(visited), j \in 1 .. Len(visited) :
       i # j => visited[i] # visited[j]
  /\ \A i \in 1 .. Len(sink), j \in 1 .. Len(sink) :
       i # j => sink[i].keysym # sink[j].keysym
  /\ (pc = "idle" /\ visited # <<>>) =>
       /\ Len(visited) = NUM_ROWS * NUM_COLUMNS
       /\ { visited[i] : i \in 1 .. Len(visited) } = Cells

\* loop() has returned from a scan in which two keys emitted, one a press and
\* one a release.
C10_Witness ==
  /\ pc = "idle"
  /\ Len(visited) = NUM_ROWS * NUM_COLUMNS
  /\ \E i \in 1 .. Len(sink), j \in 1 .. Len(sink) :
       sink[i].pressed = 1 /\ sink[j].pressed = 0

\* The cells this step moves from state a to state b.
Moved(a, b) ==
  { rc \in Cells : keystates[rc[1]][rc[2]] = a /\ keystates'[rc[1]][rc[2]] = b }

\* The cells this step moves into a lockout state.
Armed ==
  Moved(KEYSTATE_WAIT_PRESS, KEYSTATE_PRESS_LOCKOUT)
    \cup Moved(KEYSTATE_WAIT_RELEASE, KEYSTATE_RELEASE_LOCKOUT)

\* C11: the sink receives exactly one event for each WaitingForPress ->
\* PressLockout transition (pressed = 1) and for each WaitingForRelease ->
\* ReleaseLockout transition (pressed = 0), with the symbol keysyms[row][col]
\* of the cell that made it, and nothing in a step with no such transition (a
\* timeout transition, or no change of state).
C11_EmitOncePerTransition ==
  [][/\ pc = "row" =>
          IF Armed = {}
          THEN sink' = sink
          ELSE /\ Armed = {<<row, col>>}
               /\ sink' = Append(sink,
                           [keysym |-> keysyms[row][col],
                            pressed |->
                              IF keystates[row][col] = KEYSTATE_WAIT_PRESS
                              THEN 1 ELSE 0])
     /\ pc # "row" => Armed = {} /\ sink' \in {sink, <<>>}]_vars

\* In one scan key (0,0) went from WaitingForRelease to ReleaseLockout and
\* key (1,1) from WaitingForPress to PressLockout: the sink got "1" released,
\* then "5" pressed.
C11_Witness ==
  /\ sink = << [keysym |-> "1", pressed |-> 0],
               [keysym |-> "5", pressed |-> 1] >>
  /\ keystates[0][0] = KEYSTATE_RELEASE_LOCKOUT
  /\ keystates[1][1] = KEYSTATE_PRESS_LOCKOUT

\* The columns whose output is low (active).
ActiveColumns == { i \in Cols : pins[columns[i]] = 0 }

\* C12 (single active column): between invocations of loop(), so after
\* setup() too, no column is active; at most one column is ever active; and
\* when a row is about to be read for cell (row, col), and until that column
\* is driven high again, the active column is exactly col.
C12_SingleActiveColumn ==
  /\ Cardinality(ActiveColumns) <= 1
  /\ pc \in {"idle", "low"} => ActiveColumns = {}
  /\ pc \in {"row", "high"} => ActiveColumns = {col}

\* The last row of the third column is about to be read, after the first two
\* columns were driven low and high again.
C12_Witness ==
  /\ pc = "row"
  /\ col = 2
  /\ row = NUM_ROWS - 1
  /\ pins[columns[2]] = 0
  /\ pins[columns[0]] = 1
  /\ pins[columns[1]] = 1

\* C13: a cell's state is always one of the four defined values, and it
\* changes only along the cycle of the state diagram: WaitingForPress ->
\* PressLockout on a pressed reading, PressLockout -> WaitingForRelease on
\* timeout, WaitingForRelease -> ReleaseLockout on a released reading,
\* ReleaseLockout -> WaitingForPress on timeout.
C13_StateCycle ==
  [][\A r \in Rows, c \in Cols :
       /\ keystates'[r][c] \in {KEYSTATE_WAIT_PRESS, KEYSTATE_PRESS_LOCKOUT,
                                KEYSTATE_WAIT_RELEASE, KEYSTATE_RELEASE_LOCKOUT}
       /\ keystates'[r][c] # keystates[r][c] =>
            /\ pc = "row" /\ <<r, c>> = <<row, col>>
            /\ \/ /\ keystates[r][c] = KEYSTATE_WAIT_PRESS
                  /\ keystates'[r][c] = KEYSTATE_PRESS_LOCKOUT
                  /\ reading' = 1
               \/ /\ keystates[r][c] = KEYSTATE_PRESS_LOCKOUT
                  /\ keystates'[r][c] = KEYSTATE_WAIT_RELEASE
                  /\ lockout[r][c] = 1
               \/ /\ keystates[r][c] = KEYSTATE_WAIT_RELEASE
                  /\ keystates'[r][c] = KEYSTATE_RELEASE_LOCKOUT
                  /\ reading' = 0
               \/ /\ keystates[r][c] = KEYSTATE_RELEASE_LOCKOUT
                  /\ keystates'[r][c] = KEYSTATE_WAIT_PRESS
                  /\ lockout[r][c] = 1]_vars

\* Key (1,1) has gone round the whole cycle and sits in WaitingForPress again,
\* while key (0,0) is half way round.
C13_Witness ==
  /\ keystates[1][1] = KEYSTATE_WAIT_PRESS
  /\ last[1][1] = "release"
  /\ age[1][1] = LOCKOUT_SCANS + 1
  /\ keystates[0][0] = KEYSTATE_WAIT_RELEASE

\* C14 (raw readings are ignored during lockout): in two runs whose readings
\* of a key differ only while that key is in a lockout state, the key, like
\* every other cell, has the same state and the same lockout counter after
\* every step, the step that leaves the lockout state included; and no update
\* of a cell in a lockout state emits an event, in either run.
C14_ReadingsIgnoredInLockout ==
  [][/\ \A r \in Rows, c \in Cols :
          /\ keystates'[r][c] = shadow'.keystates[r][c]
          /\ lockout'[r][c] = shadow'.lockout[r][c]
     /\ (pc = "row" /\ keystates[row][col] \in LockoutStates) =>
          /\ sink' = sink
          /\ shadow'.sink = shadow.sink]_vars

\* The key `other` has just left PressLockout in both runs, in the update in
\* which the two runs read different values.
C14_Witness ==
  /\ shadow.on /\ shadow.lockonly
  /\ JustUpdated(other[1], other[2])
  /\ reading # shadow.reading
  /\ keystates[other[1]][other[2]] = KEYSTATE_WAIT_RELEASE
  /\ shadow.keystates[other[1]][other[2]] = KEYSTATE_WAIT_RELEASE
  /\ age[other[1]][other[2]] = LOCKOUT_SCANS

\* The key `other` has just been updated and read p (1 pressed, 0 released).
KeyRead(p) == JustUpdated(other[1], other[2]) /\ reading = p

\* C15 (no stuck key): with loop() called for ever, a key that from some scan
\* on never reads pressed ends up for good in WaitingForPress with counter 0,
\* its last event, if any, a release; a key that from some scan on never reads
\* released ends up for good in WaitingForRelease with counter 0, its last
\* event a press; and a key in a lockout state always leaves it.
C15_NoStuckKey ==
  /\ <>[](~KeyRead(1)) =>
       <>[](/\ keystates[other[1]][other[2]] = KEYSTATE_WAIT_PRESS
            /\ lockout[other[1]][other[2]] = 0
            /\ last[other[1]][other[2]] \in {"none", "release"})
  /\ <>[](~KeyRead(0)) =>
       <>[](/\ keystates[other[1]][other[2]] = KEYSTATE_WAIT_RELEASE
            /\ lockout[other[1]][other[2]] = 0
            /\ last[other[1]][other[2]] = "press")
  /\ [](keystates[other[1]][other[2]] \in LockoutStates =>
          <>(keystates[other[1]][other[2]] \notin LockoutStates))

\* The key `other` is held down: it has left PressLockout, waits for its
\* release with counter 0 and has just read "pressed" once more, while the
\* other pressed key is locked out after a release.
C15_Witness ==
  /\ shadow.two /\ ~shadow.on
  /\ KeyRead(1)
  /\ keystates[other[1]][other[2]] = KEYSTATE_WAIT_RELEASE
  /\ lockout[other[1]][other[2]] = 0
  /\ age[other[1]][other[2]] = LOCKOUT_SCANS + 1
  /\ keystates[shadow.peer[1]][shadow.peer[2]] = KEYSTATE_RELEASE_LOCKOUT

\* C16 (arming edge policy): an event is emitted for a cell only in an update
\* that found the cell's counter at 0 (the copy l), and that update leaves the
\* counter at exactly LOCKOUT_SCANS; the counter of every cell that emitted in
\* the current scan is still LOCKOUT_SCANS for the rest of that scan, its end
\* included.
C16_ArmedNotDecremented ==
  [][/\ \A r \in Rows, c \in Cols :
          EmitsAny(r, c) =>
            lockout[r][c] = 0 /\ lockout'[r][c] = LOCKOUT_SCANS
     /\ \A i \in 1 .. Len(sink') :
          LET rc == CellOf(sink'[i].keysym)
          IN lockout'[rc[1]][rc[2]] = LOCKOUT_SCANS]_vars

\* loop() has returned from a scan in which key (1,0) emitted its release:
\* its counter is LOCKOUT_SCANS.
C16_Witness ==
  /\ pc = "idle"
  /\ sink = << [keysym |-> "4", pressed |-> 0] >>
  /\ keystates[1][0] = KEYSTATE_RELEASE_LOCKOUT
  /\ lockout[1][0] = LOCKOUT_SCANS

\* C17 (counter range): every cell's lockout counter lies in
\* 0 .. LOCKOUT_SCANS, so the 16-bit counter never wraps below 0, and the
\* counter of a cell in PressLockout or ReleaseLockout lies in
\* 1 .. LOCKOUT_SCANS; this holds after every step, so at every scan boundary.
C17_CounterRange ==
  \A r \in Rows, c \in Cols :
    /\ lockout[r][c] \in 0 .. LOCKOUT_SCANS
    /\ keystates[r][c] \in LockoutStates => lockout[r][c] >= 1

\* At a scan boundary one key is locked out with its counter down to 1, one
\* key has its counter at LOCKOUT_SCANS and the unpressed keys are at 0.
C17_Witness ==
  /\ pc = "idle"
  /\ LOCKOUT_SCANS >= 2
  /\ \E rc \in Cells, qc \in Cells :
       /\ keystates[rc[1]][rc[2]] = KEYSTATE_RELEASE_LOCKOUT
       /\ lockout[rc[1]][rc[2]] = 1
       /\ lockout[qc[1]][qc[2]] = LOCKOUT_SCANS
  /\ lockout[3][3] = 0

====
